---- MODULE Spec2Model ----
(***************************************************************************)
(* A model of aquarion-libtts.                                             *)
(*                                                                         *)
(* Part 1: TTSPluginRegistry (api/_ttsplugins.py): the id -> plugin map,   *)
(* the set of enabled ids, and the operations load_plugins,                *)
(* list_plugin_ids, get_plugin, is_enabled, enable and disable.            *)
(* Specification Spec.                                                     *)
(*                                                                         *)
(* Part 2: KokoroSettings (kokoro/settings.py) and KokoroPlugin's          *)
(* make_settings (kokoro/_plugin.py): validation and to_dict.              *)
(* Specification SettingsSpec.                                             *)
(*                                                                         *)
(* Part 3: KokoroBackend (kokoro/_backend.py): start, stop,                *)
(* update_settings and convert.  Specification BackendSpec.                *)
(*                                                                         *)
(* Part 4: TTSRegistry (api/_ttsregistry.py): register, get_record,        *)
(* get_names, enable and disable.  Specification TTSRegistrySpec.          *)
(*                                                                         *)
(* Part 5: the locale-accepting methods of KokoroPlugin and load_language  *)
(* (api/_i18n.py).  Specification LocaleSpec.                              *)
(***************************************************************************)
EXTENDS Integers, Sequences, FiniteSets, TLC

(***************************************************************************)
(* Bounds of the model.                                                    *)
(***************************************************************************)
\* The largest number of hook implementations one discovery finds.
MaxHooks == 2
\* The largest number of pipelines a backend allocates in one behavior.
MaxPipelines == 3

(***************************************************************************)
(* Values.                                                                 *)
(***************************************************************************)
\* The ids that discovered plugins carry.
PluginIds == {"a_v1", "b_v1"}
\* The ids callers pass: the above and one id no plugin ever carries.
CallerIds == PluginIds \cup {"nonexistent"}

\* A plugin object: its id attribute and its identity.  Two of the objects
\* carry the same id and are different plugins.
PluginObjects ==
    {[id |-> "a_v1", inst |-> "first"], [id |-> "a_v1", inst |-> "second"],
     [id |-> "b_v1", inst |-> "first"]}
\* Python's None, as returned by a hook that skips registration.
None == [id |-> "None", inst |-> "None"]
\* What one hook implementation returns: ITTSPlugin | None.
HookResults == PluginObjects \cup {None}

RECURSIVE SeqsUpTo(_, _)
\* All sequences over S of length at most n.
SeqsUpTo(S, n) ==
    IF n = 0 THEN {<<>>}
    ELSE LET shorter == SeqsUpTo(S, n - 1)
         IN  shorter \cup {Append(s, x) : s \in {t \in shorter : Len(t) = n - 1}, x \in S}

\* The hook results of one discovery, in the order the hooks are called.
HookCalls == SeqsUpTo(HookResults, MaxHooks)

\* The empty dict.
EmptyDict == [k \in {} |-> None]

VARIABLES
    plugins,          \* self._plugins: dict[str, ITTSPlugin]
    enabled_plugins,  \* self._enabled_plugins: set[str]
    call,             \* the last call made on the registry and its outcome
    prev,             \* the registry state right before that call
    toggled           \* per id, the last enable or disable call that returned

vars == <<plugins, enabled_plugins, call, prev, toggled>>

\* KokoroPlugin.make_settings and KokoroSettings.to_dict (Part 2).
VARIABLES
    from_dict,        \* the from_dict argument of make_settings
    made,             \* what make_settings(from_dict) returned or raised
    dumped,           \* what to_dict() of the returned settings returned
    remade,           \* what make_settings(dumped) returned or raised
    s_pc              \* how far the caller has got: "input", "made", "dumped", "remade"

settingsVars == <<from_dict, made, dumped, remade, s_pc>>

\* No settings are being made.
SettingsIdle ==
    /\ from_dict = "idle" /\ made = "idle" /\ dumped = "idle" /\ remade = "idle"
    /\ s_pc = "idle"

\* KokoroBackend (Part 3).
VARIABLES
    backend,          \* the KokoroBackend object: _settings and _pipeline
    b_call,           \* the last call made on the backend and its outcome
    b_prev,           \* the backend right before that call
    generators,       \* the generators convert() has returned and nobody consumed
    allocated,        \* how many KPipeline objects have been constructed
    instances         \* the settings objects the callers hold, by name

backendVars == <<backend, b_call, b_prev, generators, allocated, instances>>

\* No backend has been constructed.
BackendIdle ==
    /\ backend = "idle" /\ b_call = "idle" /\ b_prev = "idle"
    /\ generators = "idle" /\ allocated = 0 /\ instances = "idle"

\* TTSRegistry (Part 4).
VARIABLES
    records,          \* self._records: dict[str, TTSRegistryRecord]
    enabled_backends, \* self._enabled_backends: set[str]
    r_call,           \* the last call made on the TTSRegistry and its outcome
    r_prev            \* the TTSRegistry right before that call

ttsRegistryVars == <<records, enabled_backends, r_call, r_prev>>

\* No TTSRegistry has been constructed.
TTSRegistryIdle ==
    /\ records = "idle" /\ enabled_backends = "idle"
    /\ r_call = "idle" /\ r_prev = "idle"

\* The locale-accepting methods of KokoroPlugin (Part 5).
VARIABLES
    l_call            \* the last locale-accepting call and its outcome

localeVars == <<l_call>>

\* No locale-accepting call is being looked at.
LocaleIdle == l_call = "idle"

(***************************************************************************)
(* The methods, as functions from the registry state (P the plugin map, E  *)
(* the enabled set) and the arguments to the outcome.                      *)
(***************************************************************************)

\* A hook call that keeps the None results in the list.
register_tts_plugin_keeping_none(hooks) == hooks

\* "Hooks that return None are filtered out automatically by Pluggy": the list
\* manager.hook.register_tts_plugin() returns, in call order.
register_tts_plugin(hooks) == SelectSeq(hooks, LAMBDA r : r # None)

\* self._plugins.setdefault(plugin.id, plugin): an id already stored is kept.
SetItem_if_absent(P, plugin) ==
    [k \in DOMAIN P \cup {plugin.id} |-> IF k \in DOMAIN P THEN P[k] ELSE plugin]

\* self._plugins[plugin.id] = plugin
SetItem(P, plugin) ==
    [k \in DOMAIN P \cup {plugin.id} |-> IF k = plugin.id THEN plugin ELSE P[k]]

RECURSIVE StorePlugins(_, _)
\* for plugin in plugins: self._plugins[plugin.id] = plugin
StorePlugins(P, found) ==
    IF found = <<>> THEN P
    ELSE StorePlugins(SetItem(P, Head(found)), Tail(found))

\* load_plugins that calls the hooks and stores their plugins before it checks
\* the pending hooks.
load_plugins_checking_last(P, E, hooks, validate, pending) ==
    LET found == register_tts_plugin(hooks)
    IN  IF found = <<>>
        THEN [plugins |-> P, enabled |-> E, err |-> "RuntimeError"]
        ELSE IF validate /\ pending
        THEN [plugins |-> StorePlugins(P, found), enabled |-> E,
              err |-> "PluginValidationError"]
        ELSE [plugins |-> StorePlugins(P, found), enabled |-> E, err |-> "none"]

\* load_plugins that also enables every plugin it stores.
load_plugins_enabling(P, E, hooks, validate, pending) ==
    IF validate /\ pending
    THEN [plugins |-> P, enabled |-> E, err |-> "PluginValidationError"]
    ELSE LET found == register_tts_plugin(hooks)
         IN  IF found = <<>>
             THEN [plugins |-> P, enabled |-> E, err |-> "RuntimeError"]
             ELSE [plugins |-> StorePlugins(P, found),
                   enabled |-> E \cup {found[i].id : i \in DOMAIN found},
                   err |-> "none"]

\* load_plugins without the "if not plugins: raise RuntimeError" check.
load_plugins_accepting_none_found(P, E, hooks, validate, pending) ==
    IF validate /\ pending
    THEN [plugins |-> P, enabled |-> E, err |-> "PluginValidationError"]
    ELSE [plugins |-> StorePlugins(P, register_tts_plugin(hooks)),
          enabled |-> E, err |-> "none"]

\* TTSPluginRegistry.load_plugins(validate=...), with `hooks` what the
\* discovered hook implementations return when called and `pending` whether
\* some discovered hook does not conform to the hook specification.
load_plugins(P, E, hooks, validate, pending) ==
    IF validate /\ pending
    THEN [plugins |-> P, enabled |-> E, err |-> "PluginValidationError"]
    ELSE LET found == register_tts_plugin(hooks)
         IN  IF found = <<>>
             THEN [plugins |-> P, enabled |-> E, err |-> "RuntimeError"]
             ELSE [plugins |-> StorePlugins(P, found), enabled |-> E, err |-> "none"]

\* is_enabled that validates the id like enable and disable do.
is_enabled_validating(E, plugin_id) ==
    IF plugin_id \in DOMAIN plugins
    THEN [ret |-> plugin_id \in E, err |-> "none"]
    ELSE [ret |-> FALSE, err |-> "ValueError"]

\* TTSPluginRegistry.is_enabled
is_enabled(E, plugin_id) == [ret |-> plugin_id \in E, err |-> "none"]

\* list_plugin_ids whose only_disabled branch lost its "not".
list_plugin_ids_without_not(P, E, only_disabled, list_all) ==
    IF only_disabled /\ list_all
    THEN [ret |-> {}, err |-> "ValueError"]
    ELSE IF list_all
    THEN [ret |-> DOMAIN P, err |-> "none"]
    ELSE [ret |-> {id \in DOMAIN P : id \in E}, err |-> "none"]

\* TTSPluginRegistry.list_plugin_ids
list_plugin_ids(P, E, only_disabled, list_all) ==
    IF only_disabled /\ list_all
    THEN [ret |-> {}, err |-> "ValueError"]
    ELSE IF only_disabled
    THEN [ret |-> {id \in DOMAIN P : ~is_enabled(E, id).ret}, err |-> "none"]
    ELSE IF list_all
    THEN [ret |-> DOMAIN P, err |-> "none"]
    ELSE [ret |-> {id \in DOMAIN P : is_enabled(E, id).ret}, err |-> "none"]

\* TTSPluginRegistry._raise_plugin_not_found
raise_plugin_not_found == "ValueError"

\* get_plugin that only finds enabled plugins.
get_plugin_only_enabled(P, id) ==
    IF id \in DOMAIN P /\ id \in enabled_plugins
    THEN [ret |-> P[id], err |-> "none"]
    ELSE [ret |-> None, err |-> "ValueError"]

\* TTSPluginRegistry.get_plugin
get_plugin(P, id) ==
    IF id \in DOMAIN P
    THEN [ret |-> P[id], err |-> "none"]
    ELSE [ret |-> None, err |-> raise_plugin_not_found]

\* enable that leaves only the given plugin enabled.
enable_exclusively(P, E, plugin_id) ==
    IF plugin_id \notin DOMAIN P
    THEN [plugins |-> P, enabled |-> E, err |-> "ValueError"]
    ELSE [plugins |-> P, enabled |-> {plugin_id}, err |-> "none"]

\* enable without the "if plugin_id not in self._plugins" check.
enable_unchecked(P, E, plugin_id) ==
    [plugins |-> P, enabled |-> E \cup {plugin_id}, err |-> "none"]

\* enable that toggles: a second call undoes the first.
enable_toggling(P, E, plugin_id) ==
    IF plugin_id \notin DOMAIN P
    THEN [plugins |-> P, enabled |-> E, err |-> "ValueError"]
    ELSE [plugins |-> P,
          enabled |-> IF plugin_id \in E THEN E \ {plugin_id} ELSE E \cup {plugin_id},
          err |-> "none"]

\* TTSPluginRegistry.enable
enable(P, E, plugin_id) ==
    IF plugin_id \notin DOMAIN P
    THEN [plugins |-> P, enabled |-> E, err |-> raise_plugin_not_found]
    ELSE [plugins |-> P, enabled |-> E \cup {plugin_id}, err |-> "none"]

\* disable that checks the id and discards nothing.
disable_discarding_nothing(P, E, plugin_id) ==
    IF plugin_id \notin DOMAIN P
    THEN [plugins |-> P, enabled |-> E, err |-> "ValueError"]
    ELSE [plugins |-> P, enabled |-> E, err |-> "none"]

\* disable without the "if plugin_id not in self._plugins" check.
disable_unchecked(P, E, plugin_id) ==
    [plugins |-> P, enabled |-> E \ {plugin_id}, err |-> "none"]

\* TTSPluginRegistry.disable
disable(P, E, plugin_id) ==
    IF plugin_id \notin DOMAIN P
    THEN [plugins |-> P, enabled |-> E, err |-> raise_plugin_not_found]
    ELSE [plugins |-> P, enabled |-> E \ {plugin_id}, err |-> "none"]

(***************************************************************************)
(* The record of a call: which method, its arguments, what it returned or  *)
(* raised.  Fields a method does not use keep their default.               *)
(***************************************************************************)
NoCall ==
    [op |-> "new", id |-> "", hooks |-> <<>>, validate |-> FALSE, pending |-> FALSE,
     only_disabled |-> FALSE, list_all |-> FALSE,
     err |-> "none", retPlugin |-> None, retBool |-> FALSE, retIds |-> {}]

Remember ==
    /\ prev' = [plugins |-> plugins, enabled |-> enabled_plugins]
    /\ UNCHANGED <<settingsVars, backendVars, ttsRegistryVars, localeVars>>

\* No enable or disable call has returned yet, for any id.
NeverToggled == [id \in CallerIds |-> "never"]

\* The history after an enable or disable call with the given outcome.
Toggled(op, id, err) == IF err = "none" THEN [toggled EXCEPT ![id] = op] ELSE toggled

(***************************************************************************)
(* The state machine: a caller makes one call after another.               *)
(***************************************************************************)
\* TTSPluginRegistry.__init__
Init ==
    /\ plugins = EmptyDict
    /\ enabled_plugins = {}
    /\ call = NoCall
    /\ prev = [plugins |-> EmptyDict, enabled |-> {}]
    /\ toggled = NeverToggled
    /\ SettingsIdle
    /\ BackendIdle
    /\ TTSRegistryIdle
    /\ LocaleIdle

LoadPlugins ==
    \E hooks \in HookCalls, validate \in BOOLEAN, pending \in BOOLEAN :
        LET out == load_plugins(plugins, enabled_plugins, hooks, validate, pending)
        IN  /\ plugins' = out.plugins
            /\ enabled_plugins' = out.enabled
            /\ call' = [NoCall EXCEPT !.op = "load_plugins", !.hooks = hooks,
                                      !.validate = validate, !.pending = pending,
                                      !.err = out.err]
            /\ Remember
            /\ UNCHANGED toggled

ListPluginIds ==
    \E only_disabled \in BOOLEAN, list_all \in BOOLEAN :
        LET out == list_plugin_ids(plugins, enabled_plugins, only_disabled, list_all)
        IN  /\ call' = [NoCall EXCEPT !.op = "list_plugin_ids",
                                      !.only_disabled = only_disabled,
                                      !.list_all = list_all,
                                      !.retIds = out.ret, !.err = out.err]
            /\ Remember
            /\ UNCHANGED <<plugins, enabled_plugins, toggled>>

GetPlugin ==
    \E id \in CallerIds :
        LET out == get_plugin(plugins, id)
        IN  /\ call' = [NoCall EXCEPT !.op = "get_plugin", !.id = id,
                                      !.retPlugin = out.ret, !.err = out.err]
            /\ Remember
            /\ UNCHANGED <<plugins, enabled_plugins, toggled>>

IsEnabled ==
    \E id \in CallerIds :
        LET out == is_enabled(enabled_plugins, id)
        IN  /\ call' = [NoCall EXCEPT !.op = "is_enabled", !.id = id,
                                      !.retBool = out.ret, !.err = out.err]
            /\ Remember
            /\ UNCHANGED <<plugins, enabled_plugins, toggled>>

Enable ==
    \E id \in CallerIds :
        LET out == enable(plugins, enabled_plugins, id)
        IN  /\ plugins' = out.plugins
            /\ enabled_plugins' = out.enabled
            /\ call' = [NoCall EXCEPT !.op = "enable", !.id = id, !.err = out.err]
            /\ toggled' = Toggled("enable", id, out.err)
            /\ Remember

Disable ==
    \E id \in CallerIds :
        LET out == disable(plugins, enabled_plugins, id)
        IN  /\ plugins' = out.plugins
            /\ enabled_plugins' = out.enabled
            /\ call' = [NoCall EXCEPT !.op = "disable", !.id = id, !.err = out.err]
            /\ toggled' = Toggled("disable", id, out.err)
            /\ Remember

Next ==
    \/ LoadPlugins
    \/ ListPluginIds
    \/ GetPlugin
    \/ IsEnabled
    \/ Enable
    \/ Disable

Spec == Init /\ [][Next]_vars

(***************************************************************************)
(* Properties of the plugin registry.                                      *)
(***************************************************************************)
\* What the last call was applied to.
Known == DOMAIN plugins
WasKnown == DOMAIN prev.plugins
Returned == call.err = "none"
StateUnchanged == plugins = prev.plugins /\ enabled_plugins = prev.enabled

\* The positions of the hooks of the last load_plugins call that returned a
\* plugin, and the ids of those plugins.
ReturnedPlugin == {i \in DOMAIN call.hooks : call.hooks[i] # None}
ReturnedIds == {call.hooks[i].id : i \in ReturnedPlugin}
\* load_plugins got past hook validation and called the hooks.
HooksCalled == call.op = "load_plugins" /\ ~(call.validate /\ call.pending)

\* C1: in every reachable state, every id in the enabled set is a key of the
\* plugin map.
C1_EnabledAreKnown == enabled_plugins \subseteq Known

\* C1 witness: enable of an id that is not in the map was called on a registry
\* with an enabled and a disabled plugin.
C1_Witness ==
    /\ call.op = "enable"
    /\ call.id \notin Known
    /\ enabled_plugins # {}
    /\ enabled_plugins # Known

\* C2: list_plugin_ids(list_all=True) is the union of list_plugin_ids() and
\* list_plugin_ids(only_disabled=True), and these two are disjoint.
C2_ListingPartition ==
    LET all == list_plugin_ids(plugins, enabled_plugins, FALSE, TRUE)
        en  == list_plugin_ids(plugins, enabled_plugins, FALSE, FALSE)
        dis == list_plugin_ids(plugins, enabled_plugins, TRUE, FALSE)
    IN  /\ all.err = "none" /\ en.err = "none" /\ dis.err = "none"
        /\ all.ret = en.ret \cup dis.ret
        /\ en.ret \cap dis.ret = {}

\* C2 witness: after loading and enabling, a listing was made of a registry
\* with both an enabled and a disabled plugin.
C2_Witness ==
    /\ call.op = "list_plugin_ids"
    /\ call.only_disabled /\ ~call.list_all
    /\ call.retIds # {}
    /\ enabled_plugins # {}

\* C3: for a known id p, enable(p) twice gives the registry state enable(p)
\* once gives and raises nothing, and so for disable(p); a repeated call in a
\* run changes nothing.
C3_EnableDisableIdempotent ==
    /\ \A p \in Known :
          LET e1 == enable(plugins, enabled_plugins, p)
              e2 == enable(e1.plugins, e1.enabled, p)
              d1 == disable(plugins, enabled_plugins, p)
              d2 == disable(d1.plugins, d1.enabled, p)
          IN  /\ e1.err = "none" /\ e2 = e1
              /\ d1.err = "none" /\ d2 = d1
    /\ (call.op = "enable" /\ call.id \in prev.enabled)
          => Returned /\ StateUnchanged
    /\ (call.op = "disable" /\ call.id \in WasKnown \ prev.enabled)
          => Returned /\ StateUnchanged

\* C3 witness: enable was called on a plugin that was already enabled, with
\* another plugin still disabled.
C3_Witness ==
    /\ call.op = "enable"
    /\ call.id \in prev.enabled
    /\ Known # enabled_plugins

\* C4: enable, disable and get_plugin of an id that is not a key of the plugin
\* map fail with ValueError and leave the map and the enabled set as they were.
C4_UnknownIdRejected ==
    (call.op \in {"enable", "disable", "get_plugin"} /\ call.id \notin WasKnown)
        => call.err = "ValueError" /\ StateUnchanged

\* C4 witness: disable of an unknown id on a registry with an enabled plugin.
C4_Witness ==
    /\ call.op = "disable"
    /\ call.id \notin WasKnown
    /\ prev.enabled # {}

\* C5, as claimed: when two hooks of one load_plugins call return plugins with
\* the same id, the map holds the first of them.
C5_FirstWriteWins ==
    (HooksCalled /\ Returned) =>
        \A i \in ReturnedPlugin :
            (\A j \in ReturnedPlugin : call.hooks[j].id = call.hooks[i].id => i <= j)
                => plugins[call.hooks[i].id] = call.hooks[i]

\* C5, amended: the map holds, under each id, the last plugin with that id in
\* the list the hook call returned; an earlier one is overwritten.
C5_LastWriteWins ==
    (HooksCalled /\ Returned) =>
        \A i \in ReturnedPlugin :
            (\A j \in ReturnedPlugin : call.hooks[j].id = call.hooks[i].id => j <= i)
                => plugins[call.hooks[i].id] = call.hooks[i]

\* C5 witness: one load_plugins call got two different plugins with the same id.
C5_Witness ==
    /\ HooksCalled /\ Returned
    /\ \E i, j \in ReturnedPlugin :
          /\ i < j
          /\ call.hooks[i].id = call.hooks[j].id
          /\ call.hooks[i] # call.hooks[j]

\* C6: load_plugins leaves the enabled set as it was; on a registry with
\* nothing enabled, every plugin is disabled after loading.
C6_LoadKeepsEnabledSet ==
    call.op = "load_plugins" =>
        /\ enabled_plugins = prev.enabled
        /\ prev.enabled = {} =>
              list_plugin_ids(plugins, enabled_plugins, TRUE, FALSE).ret = Known

\* C6 witness: a load_plugins call added a plugin to a registry that had an
\* enabled plugin.
C6_Witness ==
    /\ call.op = "load_plugins" /\ Returned
    /\ prev.enabled # {}
    /\ Known # WasKnown

C9_GetPluginIsExactLookup ==
    call.op = "get_plugin" =>
        /\ call.id \in WasKnown => Returned /\ call.retPlugin = prev.plugins[call.id]
        /\ call.id \notin WasKnown => call.err = "ValueError"

\* C9 witness: get_plugin returned a plugin that is disabled.
C9_Witness ==
    /\ call.op = "get_plugin"
    /\ call.id \in Known \ enabled_plugins
    /\ call.retPlugin \in PluginObjects

\* C10: is_enabled raises nothing, answers False for an id that is not a known
\* plugin, and changes neither the map nor the enabled set.
C10_IsEnabledNeverFails ==
    call.op = "is_enabled" =>
        /\ Returned
        /\ call.retBool = (call.id \in prev.enabled)
        /\ call.id \notin WasKnown => call.retBool = FALSE
        /\ StateUnchanged

\* C10 witness: is_enabled of an unknown id on a registry with an enabled
\* plugin answered False.
C10_Witness ==
    /\ call.op = "is_enabled"
    /\ call.id \notin Known
    /\ enabled_plugins # {}
    /\ call.retBool = FALSE /\ Returned

\* C25: is_enabled(p) of a known id p is true exactly when the last enable or
\* disable call naming p that returned was enable; it is false for a p that no
\* such call has named, and after enable(p) then disable(p).
C25_LastToggleDecides ==
    /\ \A p \in Known : is_enabled(enabled_plugins, p).ret <=> toggled[p] = "enable"
    /\ (call.op = "is_enabled" /\ call.id \in Known) =>
           (call.retBool <=> toggled[call.id] = "enable")
    /\ (call.op = "disable" /\ Returned) => ~is_enabled(enabled_plugins, call.id).ret

\* C25 witness: is_enabled answered False for a plugin that was enabled and
\* then disabled, while the other plugin is still enabled.
C25_Witness ==
    /\ call.op = "is_enabled"
    /\ call.id = "a_v1"
    /\ toggled["a_v1"] = "disable"
    /\ toggled["b_v1"] = "enable"
    /\ call.retBool = FALSE
    /\ "b_v1" \in enabled_plugins

\* C29: enable(p) and disable(p) leave the plugin map as it was, and for every
\* id q other than p is_enabled(q) is the same before and after the call.
C29_ToggleTouchesOnlyItsId ==
    call.op \in {"enable", "disable"} =>
        /\ plugins = prev.plugins
        /\ \A q \in CallerIds \ {call.id} :
               is_enabled(enabled_plugins, q).ret = is_enabled(prev.enabled, q).ret

\* C29 witness: b_v1 was enabled while a_v1 was enabled, and both are enabled.
C29_Witness ==
    /\ call.op = "enable"
    /\ call.id = "b_v1"
    /\ Returned
    /\ "a_v1" \in prev.enabled
    /\ "b_v1" \notin prev.enabled
    /\ enabled_plugins = {"a_v1", "b_v1"}

\* C30: a load_plugins call that raises, for a hook that fails validation or
\* for no plugin found, leaves the plugin map and the enabled set as they were.
C30_FailedLoadStoresNothing ==
    (call.op = "load_plugins" /\ ~Returned) =>
        /\ call.err \in {"PluginValidationError", "RuntimeError"}
        /\ StateUnchanged

\* C30 witness: a validating load_plugins whose hooks return a plugin and one
\* of whose hooks does not conform raised, on a registry that holds a plugin.
C30_Witness ==
    /\ call.op = "load_plugins"
    /\ call.validate /\ call.pending
    /\ call.err = "PluginValidationError"
    /\ \E i \in DOMAIN call.hooks :
           call.hooks[i] # None /\ call.hooks[i].id \notin WasKnown
    /\ WasKnown # {}
    /\ prev.enabled # {}
    /\ StateUnchanged

(***************************************************************************)
(* Part 2: KokoroSettings and KokoroPlugin.make_settings.                  *)
(*                                                                         *)
(* Python's str methods, on the sequence of a string's characters.         *)
(***************************************************************************)
\* The characters of the strings whose characters the code looks at.
Chars ==
       ("en_US" :> <<"e", "n", "_", "U", "S">>)
    @@ ("en_GB" :> <<"e", "n", "_", "G", "B">>)
    @@ ("fr_FR" :> <<"f", "r", "_", "F", "R">>)
    @@ ("en-US" :> <<"e", "n", "-", "U", "S">>)
    @@ ("en-gb" :> <<"e", "n", "-", "g", "b">>)
    @@ ("en" :> <<"e", "n">>)
    @@ ("es" :> <<"e", "s">>)
    @@ ("xx-XX" :> <<"x", "x", "-", "X", "X">>)
    @@ ("pt-br" :> <<"p", "t", "-", "b", "r">>)
    @@ ("en-us" :> <<"e", "n", "-", "u", "s">>)
    @@ ("fr-fr" :> <<"f", "r", "-", "f", "r">>)
    @@ ("hi" :> <<"h", "i">>)
    @@ ("it" :> <<"i", "t">>)
    @@ ("ja" :> <<"j", "a">>)
    @@ ("zh" :> <<"z", "h">>)
    @@ ("pt_BR" :> <<"p", "t", "_", "B", "R">>)
    @@ ("xx_XX" :> <<"x", "x", "_", "X", "X">>)
    @@ ("en-GB" :> <<"e", "n", "-", "G", "B">>)
    @@ ("fr-FR" :> <<"f", "r", "-", "F", "R">>)
    @@ ("fr" :> <<"f", "r">>)
    @@ ("12" :> <<"1", "2">>)
    @@ ("af_heart" :> <<"a", "f", "_", "h", "e", "a", "r", "t">>)
    @@ ("af_bella" :> <<"a", "f", "_", "b", "e", "l", "l", "a">>)
    @@ ("af_nicole" :> <<"a", "f", "_", "n", "i", "c", "o", "l", "e">>)
    @@ ("am_fenrir" :> <<"a", "m", "_", "f", "e", "n", "r", "i", "r">>)
    @@ ("am_michael" :> <<"a", "m", "_", "m", "i", "c", "h", "a", "e", "l">>)
    @@ ("am_puck" :> <<"a", "m", "_", "p", "u", "c", "k">>)
    @@ ("bf_emma" :> <<"b", "f", "_", "e", "m", "m", "a">>)
    @@ ("bm_fable" :> <<"b", "m", "_", "f", "a", "b", "l", "e">>)
    @@ ("bm_george" :> <<"b", "m", "_", "g", "e", "o", "r", "g", "e">>)
    @@ ("ff_siwis" :> <<"f", "f", "_", "s", "i", "w", "i", "s">>)
    @@ ("xf_not_exist" :> <<"x", "f", "_", "n", "o", "t", "_", "e", "x", "i", "s", "t">>)
    @@ ("a" :> <<"a">>)
    @@ ("b" :> <<"b">>)
    @@ ("e" :> <<"e">>)
    @@ ("f" :> <<"f">>)
    @@ ("h" :> <<"h">>)
    @@ ("i" :> <<"i">>)
    @@ ("p" :> <<"p">>)
    @@ ("j" :> <<"j">>)
    @@ ("z" :> <<"z">>)

\* The string with the given characters.
Text(chars) == CHOOSE s \in DOMAIN Chars : Chars[s] = chars

Uppers ==
    <<"A", "B", "C", "D", "E", "F", "G", "H", "I", "J", "K", "L", "M",
      "N", "O", "P", "Q", "R", "S", "T", "U", "V", "W", "X", "Y", "Z">>
Lowers ==
    <<"a", "b", "c", "d", "e", "f", "g", "h", "i", "j", "k", "l", "m",
      "n", "o", "p", "q", "r", "s", "t", "u", "v", "w", "x", "y", "z">>

IsUpper(c) == \E i \in DOMAIN Uppers : Uppers[i] = c
IsLower(c) == \E i \in DOMAIN Lowers : Lowers[i] = c

\* str.lower
str_lower(chars) ==
    [i \in DOMAIN chars |->
        IF IsUpper(chars[i])
        THEN Lowers[CHOOSE j \in DOMAIN Uppers : Uppers[j] = chars[i]]
        ELSE chars[i]]

\* str.upper
str_upper(chars) ==
    [i \in DOMAIN chars |->
        IF IsLower(chars[i])
        THEN Uppers[CHOOSE j \in DOMAIN Lowers : Lowers[j] = chars[i]]
        ELSE chars[i]]

\* str.replace, of one character by another
str_replace(chars, old, new) ==
    [i \in DOMAIN chars |-> IF chars[i] = old THEN new ELSE chars[i]]

\* old in chars
str_contains(chars, c) == \E i \in DOMAIN chars : chars[i] = c

\* str.isalpha
str_isalpha(chars) ==
    chars # <<>> /\ \A i \in DOMAIN chars : IsUpper(chars[i]) \/ IsLower(chars[i])

RECURSIVE str_split(_, _)
\* str.split(sep)
str_split(chars, sep) ==
    IF ~str_contains(chars, sep) THEN <<chars>>
    ELSE LET i == CHOOSE k \in DOMAIN chars :
                      chars[k] = sep /\ \A m \in 1..(k - 1) : chars[m] # sep
         IN  <<SubSeq(chars, 1, i - 1)>> \o str_split(SubSeq(chars, i + 1, Len(chars)), sep)

(***************************************************************************)
(* JSON values (JSONSerializableTypes) and Python exceptions.              *)
(***************************************************************************)
Str(s) == [t |-> "str", s |-> s, n |-> 0]
\* A number, in hundredths: Num(150) is 1.5.
Num(n) == [t |-> "num", s |-> "", n |-> n]
Null == [t |-> "null", s |-> "", n |-> 0]

\* The classes an exception is an instance of.  pydantic's ValidationError is a
\* ValueError.
ExceptionClasses(err) ==
    CASE err = "ValidationError" -> {"ValidationError", "ValueError", "Exception"}
      [] err = "ValueError" -> {"ValueError", "Exception"}
      [] err = "UnknownLocaleError" -> {"UnknownLocaleError", "Exception"}
      [] err = "TypeError" -> {"TypeError", "Exception"}
      [] err = "KeyError" -> {"KeyError", "LookupError", "Exception"}
      [] err = "RuntimeError" -> {"RuntimeError", "Exception"}
      [] err = "Exception" -> {"Exception"}
      [] OTHER -> {}

(***************************************************************************)
(* The enumerations and the libraries' data.                               *)
(***************************************************************************)
\* class KokoroLocales(StrEnum): the member names, which are also the values.
KokoroLocales == {"en_US", "en_GB", "fr_FR"}

\* class KokoroVoices(StrEnum)
KokoroVoices ==
    {"af_heart", "af_bella", "af_nicole", "am_fenrir", "am_michael", "am_puck",
     "bf_emma", "bm_fable", "bm_george", "ff_siwis"}

\* class KokoroDeviceNames(StrEnum)
KokoroDeviceNames == {"cpu", "cuda"}

\* kokoro.pipeline.ALIASES
ALIASES ==
       ("en-us" :> "a") @@ ("en-gb" :> "b") @@ ("es" :> "e") @@ ("fr-fr" :> "f")
    @@ ("hi" :> "h") @@ ("it" :> "i") @@ ("pt-br" :> "p") @@ ("ja" :> "j")
    @@ ("zh" :> "z")

\* The locale identifiers babel has data for, among those of Chars.
BabelLocales ==
    {"en", "en_US", "en_GB", "fr", "fr_FR", "es", "pt_BR", "hi", "it", "ja", "zh"}

\* The files that exist (FilePath accepts these paths and no other).
ExistingFiles == {"kokoro-v1_0.pth", "config.json", "af_heart.pt"}

\* babel's Locale.parse(identifier, sep) for identifiers of the forms
\* language and language<sep>territory: the Locale, or the exception raised.
Locale_parse(identifier, sep) ==
    IF identifier.t # "str"
    THEN [err |-> "TypeError", language |-> <<>>, territory |-> <<>>, script |-> <<>>]
    ELSE LET parts == str_split(Chars[identifier.s], sep)
             language == str_lower(parts[1])
             territory == IF Len(parts) >= 2 THEN str_upper(parts[2]) ELSE <<>>
             wellformed ==
                 /\ str_isalpha(language)
                 /\ Len(parts) <= 2
                 /\ Len(parts) = 2 => (Len(parts[2]) = 2 /\ str_isalpha(parts[2]))
             id == IF territory = <<>> THEN language ELSE language \o <<"_">> \o territory
         IN  IF ~wellformed
             THEN [err |-> "ValueError", language |-> <<>>, territory |-> <<>>,
                   script |-> <<>>]
             ELSE IF ~\E b \in BabelLocales : Chars[b] = id
             THEN [err |-> "UnknownLocaleError", language |-> <<>>, territory |-> <<>>,
                   script |-> <<>>]
             ELSE [err |-> "none", language |-> language, territory |-> territory,
                   script |-> <<>>]

\* str(Locale)
Locale_str(locale) ==
    locale.language
        \o (IF locale.script = <<>> THEN <<>> ELSE <<"_">> \o locale.script)
        \o (IF locale.territory = <<>> THEN <<>> ELSE <<"_">> \o locale.territory)

(***************************************************************************)
(* KokoroSettings: the field validations, the constructor, lang_code and   *)
(* to_dict.  A validation gives [ok, value]; a raised exception that       *)
(* pydantic does not turn into a validation error gives [ok, raises].      *)
(***************************************************************************)
\* The least and the greatest speed, in hundredths: Field(ge=0.1, le=2.0).
SpeedGe == 10
SpeedLe == 200

Fields ==
    {"locale", "voice", "speed", "device", "repo_id", "model_path", "config_path",
     "voice_path"}

\* The defaults of the fields, as the values given to the validations.
FieldDefaults ==
       ("locale" :> Str("en_US")) @@ ("voice" :> Str("af_heart")) @@ ("speed" :> Num(100))
    @@ ("device" :> Null) @@ ("repo_id" :> Str("hexgrad/Kokoro-82M"))
    @@ ("model_path" :> Null) @@ ("config_path" :> Null) @@ ("voice_path" :> Null)

\* A member of a StrEnum, and None where an enum member may be.
Member(enum, value) == [enum |-> enum, value |-> value]
NoMember == [enum |-> "None", value |-> ""]
\* A pathlib.Path, and None where a path may be.
Path(p) == [isnone |-> FALSE, path |-> p]
NoPath == [isnone |-> TRUE, path |-> ""]

\* KokoroSettings._validate_locale, then the str check of the field.
validate_locale(locale) ==
    IF locale.t # "str"
    THEN [ok |-> FALSE, raises |-> "TypeError", value |-> ""]
    ELSE LET separator == IF str_contains(Chars[locale.s], "_") THEN "_" ELSE "-"
             parsed == Locale_parse(locale, separator)
         IN  IF parsed.err # "none"
             THEN [ok |-> FALSE, raises |-> "none", value |-> ""]
             ELSE LET valid_locale == [parsed EXCEPT !.script = <<>>]
                      name == Locale_str(valid_locale)
                  IN  IF \E m \in KokoroLocales : Chars[m] = name
                      THEN [ok |-> TRUE, raises |-> "none", value |-> Text(name)]
                      ELSE [ok |-> FALSE, raises |-> "none", value |-> ""]

\* voice: KokoroVoices
coerce_voice(v) ==
    IF v.t = "str" /\ v.s \in KokoroVoices
    THEN [ok |-> TRUE, value |-> Member("KokoroVoices", v.s)]
    ELSE [ok |-> FALSE, value |-> NoMember]

\* speed with the upper limit of the earlier releases: Field(ge=0.1, le=1.0).
validate_speed_le_1(v) ==
    IF v.t = "num" /\ SpeedGe <= v.n /\ v.n <= 100
    THEN [ok |-> TRUE, value |-> v.n]
    ELSE [ok |-> FALSE, value |-> 0]

\* speed: float = Field(default=1.0, ge=0.1, le=2.0)
validate_speed(v) ==
    IF v.t = "num" /\ SpeedGe <= v.n /\ v.n <= SpeedLe
    THEN [ok |-> TRUE, value |-> v.n]
    ELSE [ok |-> FALSE, value |-> 0]

\* device: KokoroDeviceNames | None
coerce_device(v) ==
    IF v.t = "null" THEN [ok |-> TRUE, value |-> NoMember]
    ELSE IF v.t = "str" /\ v.s \in KokoroDeviceNames
    THEN [ok |-> TRUE, value |-> Member("KokoroDeviceNames", v.s)]
    ELSE [ok |-> FALSE, value |-> NoMember]

\* repo_id: str
validate_repo_id(v) ==
    IF v.t = "str" THEN [ok |-> TRUE, value |-> v.s] ELSE [ok |-> FALSE, value |-> ""]

\* model_path, config_path, voice_path: FilePath | None
validate_file_path(v) ==
    IF v.t = "null" THEN [ok |-> TRUE, value |-> NoPath]
    ELSE IF v.t = "str" /\ v.s \in ExistingFiles
    THEN [ok |-> TRUE, value |-> Path(v.s)]
    ELSE [ok |-> FALSE, value |-> NoPath]

\* KokoroSettings.lang_code
lang_code(settings) ==
    ALIASES[Text(str_replace(str_lower(Chars[settings.locale]), "_", "-"))]

\* A model validator that accepts every voice.
validate_voice_accepting_all(settings) == TRUE

\* KokoroSettings._validate_voice: whether it returns (and does not raise
\* ValueError).
validate_voice(settings) ==
    <<Chars[settings.voice.value][1]>> = Chars[lang_code(settings)]

\* What a call that raises leaves in place of the settings.
NoSettings ==
    [type |-> "None", locale |-> "", voice |-> NoMember, speed |-> 0, device |-> NoMember,
     repo_id |-> "", model_path |-> NoPath, config_path |-> NoPath, voice_path |-> NoPath]

Raised(err, at) == [err |-> err, at |-> at, ret |-> NoSettings]

\* The field validations of KokoroSettings(**kwargs), by field.
ValidatedFields(kwargs) ==
    LET given(f) == IF f \in DOMAIN kwargs THEN kwargs[f] ELSE FieldDefaults[f]
    IN     ("locale" :> validate_locale(given("locale")))
        @@ ("voice" :> coerce_voice(given("voice")))
        @@ ("speed" :> validate_speed(given("speed")))
        @@ ("device" :> coerce_device(given("device")))
        @@ ("repo_id" :> validate_repo_id(given("repo_id")))
        @@ ("model_path" :> validate_file_path(given("model_path")))
        @@ ("config_path" :> validate_file_path(given("config_path")))
        @@ ("voice_path" :> validate_file_path(given("voice_path")))

\* KokoroSettings(**kwargs) with extra="ignore": unknown arguments are dropped.
KokoroSettings_ignoring_extra(kwargs) ==
    LET v == ValidatedFields(kwargs)
        invalid == {f \in Fields : ~v[f].ok}
        settings == [type |-> "KokoroSettings"] @@ [f \in Fields |-> v[f].value]
    IN  IF v["locale"].raises # "none" THEN Raised(v["locale"].raises, {"locale"})
        ELSE IF invalid # {} THEN Raised("ValidationError", invalid)
        ELSE IF ~validate_voice(settings) THEN Raised("ValidationError", {"_validate_voice"})
        ELSE [err |-> "none", at |-> {}, ret |-> settings]

\* KokoroSettings(**kwargs): the instance, or the exception raised and the
\* places the validation error names (a field, an unexpected argument, or the
\* model validator).
KokoroSettings(kwargs) ==
    LET v == ValidatedFields(kwargs)
        invalid == {f \in Fields : ~v[f].ok} \cup (DOMAIN kwargs \ Fields)
        settings == [type |-> "KokoroSettings"] @@ [f \in Fields |-> v[f].value]
    IN  IF v["locale"].raises # "none" THEN Raised(v["locale"].raises, {"locale"})
        ELSE IF invalid # {} THEN Raised("ValidationError", invalid)
        ELSE IF ~validate_voice(settings) THEN Raised("ValidationError", {"_validate_voice"})
        ELSE [err |-> "none", at |-> {}, ret |-> settings]

\* to_dict that leaves out the speed.
to_dict_without_speed(settings) ==
       ("locale" :> Str(settings.locale))
    @@ ("voice" :> Str(settings.voice.value))
    @@ ("device" :> IF settings.device = NoMember THEN Null ELSE Str(settings.device.value))
    @@ ("repo_id" :> Str(settings.repo_id))
    @@ ("model_path" :> IF settings.model_path.isnone THEN Null
                        ELSE Str(settings.model_path.path))
    @@ ("config_path" :> IF settings.config_path.isnone THEN Null
                         ELSE Str(settings.config_path.path))
    @@ ("voice_path" :> IF settings.voice_path.isnone THEN Null
                        ELSE Str(settings.voice_path.path))

\* KokoroSettings.to_dict: dump_python(self, mode="json")
to_dict(settings) ==
       ("locale" :> Str(settings.locale))
    @@ ("voice" :> Str(settings.voice.value))
    @@ ("speed" :> Num(settings.speed))
    @@ ("device" :> IF settings.device = NoMember THEN Null ELSE Str(settings.device.value))
    @@ ("repo_id" :> Str(settings.repo_id))
    @@ ("model_path" :> IF settings.model_path.isnone THEN Null
                        ELSE Str(settings.model_path.path))
    @@ ("config_path" :> IF settings.config_path.isnone THEN Null
                         ELSE Str(settings.config_path.path))
    @@ ("voice_path" :> IF settings.voice_path.isnone THEN Null
                        ELSE Str(settings.voice_path.path))

\* The from_dict argument: None, or a mapping.
NoneArg == [given |-> FALSE, map |-> <<>>]
Mapping(m) == [given |-> TRUE, map |-> m]

\* KokoroPlugin.make_settings
make_settings(arg) ==
    LET dict == IF arg.given THEN arg.map ELSE <<>>
    IN  KokoroSettings(dict)

(***************************************************************************)
(* The state machine of Part 2: a caller makes settings from a mapping,    *)
(* dumps them with to_dict and makes settings again from the dump.         *)
(***************************************************************************)
\* A key that the mapping does not have.
Absent == [t |-> "absent", s |-> "", n |-> 0]

\* The mapping with the one key, or without it.
Item(key, value) == IF value = Absent THEN <<>> ELSE key :> value

\* The values the caller gives for each key.
LocaleInputs ==
    {Absent, Str("en_US"), Str("en-US"), Str("en-gb"), Str("fr_FR"), Str("es"),
     Str("xx-XX"), Null}
VoiceInputs == {Absent, Str("af_heart"), Str("bf_emma"), Str("ff_siwis"), Str("xf_not_exist")}
SpeedInputs == {Absent, Num(5), Num(10), Num(100), Num(150), Num(200), Num(210)}
DeviceInputs == {Absent, Str("cuda"), Str("bad_device")}
ModelPathInputs == {Absent, Str("kokoro-v1_0.pth"), Str("bad/exist")}
VoicePathInputs == {Absent, Str("af_heart.pt")}
UnknownKeyInputs == {Absent, Null}

\* The from_dict arguments of the caller: None, or a mapping.
FromDictArgs ==
    {NoneArg} \cup
    {Mapping(Item("locale", l) @@ Item("voice", v) @@ Item("speed", sp)
             @@ Item("device", d) @@ Item("model_path", m) @@ Item("voice_path", vp)
             @@ Item("invalid", u)) :
        l \in LocaleInputs, v \in VoiceInputs, sp \in SpeedInputs, d \in DeviceInputs,
        m \in ModelPathInputs, vp \in VoicePathInputs, u \in UnknownKeyInputs}

\* No call made yet.
NoResult == Raised("not called", {})

RegistryIdle ==
    /\ plugins = EmptyDict
    /\ enabled_plugins = {}
    /\ call = NoCall
    /\ prev = [plugins |-> EmptyDict, enabled |-> {}]
    /\ toggled = NeverToggled

allVars == <<vars, settingsVars, backendVars, ttsRegistryVars, localeVars>>

SettingsInit ==
    /\ from_dict \in FromDictArgs
    /\ made = NoResult
    /\ dumped = <<>>
    /\ remade = NoResult
    /\ s_pc = "input"
    /\ RegistryIdle
    /\ BackendIdle
    /\ TTSRegistryIdle
    /\ LocaleIdle

\* settings = plugin.make_settings(from_dict)
MakeSettings ==
    /\ s_pc = "input"
    /\ made' = make_settings(from_dict)
    /\ s_pc' = "made"
    /\ UNCHANGED <<from_dict, dumped, remade, vars, backendVars, ttsRegistryVars, localeVars>>

\* settings_dict = settings.to_dict()
ToDict ==
    /\ s_pc = "made"
    /\ made.err = "none"
    /\ dumped' = to_dict(made.ret)
    /\ s_pc' = "dumped"
    /\ UNCHANGED <<from_dict, made, remade, vars, backendVars, ttsRegistryVars, localeVars>>

\* plugin.make_settings(settings_dict)
MakeSettingsAgain ==
    /\ s_pc = "dumped"
    /\ remade' = make_settings(Mapping(dumped))
    /\ s_pc' = "remade"
    /\ UNCHANGED <<from_dict, made, dumped, vars, backendVars, ttsRegistryVars, localeVars>>

SettingsNext ==
    \/ MakeSettings
    \/ ToDict
    \/ MakeSettingsAgain

SettingsSpec == SettingsInit /\ [][SettingsNext]_allVars

(***************************************************************************)
(* Properties of KokoroSettings and make_settings.                         *)
(***************************************************************************)
\* What the caller gave.
Given == IF from_dict.given THEN from_dict.map ELSE <<>>
GivenKeys == DOMAIN Given
Made == s_pc \in {"made", "dumped", "remade"}
MadeValid == Made /\ made.err = "none"
MadeFailed == Made /\ made.err # "none" /\ made.ret = NoSettings

\* C17: settings made by make_settings, from the defaults or from an accepted
\* mapping, are made again from their to_dict(): the second make_settings
\* succeeds and its settings equal the first.  (The files that the path
\* settings name exist at both calls.)
C17_ToDictRoundTrip ==
    s_pc = "remade" =>
        /\ MadeValid
        /\ remade.err = "none"
        /\ remade.ret = made.ret

\* C17 witness: settings with a locale written "en-gb", a speed other than the
\* default and a model path went through to_dict and came back equal.
C17_Witness ==
    /\ s_pc = "remade"
    /\ from_dict.given
    /\ {"locale", "speed", "model_path"} \subseteq GivenKeys
    /\ Given["locale"] = Str("en-gb")
    /\ made.ret.locale = "en_GB"
    /\ made.ret.speed = 150
    /\ dumped["model_path"] = Str("kokoro-v1_0.pth")
    /\ remade.err = "none"
    /\ remade.ret = made.ret

SpeedGiven == "speed" \in GivenKeys /\ Given["speed"].t = "num"

CheckedLocale == ValidatedFields(Given)["locale"]
CheckedVoice == ValidatedFields(Given)["voice"]
\* The language code of a locale of KokoroLocales.
LanguageCode(locale) ==
    CASE locale = "en_US" -> "a"
      [] locale = "en_GB" -> "b"
      [] locale = "fr_FR" -> "f"
Compatible(locale, voice) == Chars[voice][1] = Chars[LanguageCode(locale)][1]

\* C20: settings are made only if the first letter of the voice is the
\* language code of the locale, the defaults standing in for a locale or a
\* voice not given.  When every field check passes and the voice does not fit
\* the locale, make_settings fails with a ValueError-class error of the model
\* validation; that validation is reported only when no field check failed.
C20_VoiceFitsLocale ==
    s_pc = "made" =>
        /\ made.err = "none" => Compatible(made.ret.locale, made.ret.voice.value)
        /\ "_validate_voice" \in made.at =>
               /\ made.at = {"_validate_voice"}
               /\ CheckedLocale.ok /\ CheckedVoice.ok
               /\ ~Compatible(CheckedLocale.value, CheckedVoice.value.value)
        /\ (/\ \A f \in Fields : ValidatedFields(Given)[f].ok
            /\ GivenKeys \subseteq Fields
            /\ ~Compatible(CheckedLocale.value, CheckedVoice.value.value)) =>
               /\ MadeFailed
               /\ "ValueError" \in ExceptionClasses(made.err)
               /\ made.at = {"_validate_voice"}

\* C20 witness: only the locale en-gb was given, and the default voice
\* af_heart was refused for it.
C20_Witness ==
    /\ s_pc = "made"
    /\ GivenKeys = {"locale"}
    /\ Given["locale"] = Str("en-gb")
    /\ made.err = "ValidationError"
    /\ made.at = {"_validate_voice"}
    /\ made.ret = NoSettings

(***************************************************************************)
(* Part 3: KokoroBackend.                                                  *)
(***************************************************************************)
\* The settings objects the callers hold: two KokoroSettings made by
\* make_settings (the defaults, and British English with a local model file)
\* and the settings of another plugin.
DefaultSettings == make_settings(NoneArg).ret
BritishSettings ==
    make_settings(Mapping(("locale" :> Str("en-gb")) @@ ("voice" :> Str("bf_emma"))
                          @@ ("model_path" :> Str("kokoro-v1_0.pth")))).ret
AnotherTTSSettings == [NoSettings EXCEPT !.type = "AnotherTTSSettings"]
SettingsObjects == {DefaultSettings, BritishSettings, AnotherTTSSettings}

\* The settings objects as constructed, by the name the callers hold them by.
ConstructedInstances ==
       ("default" :> DefaultSettings) @@ ("british" :> BritishSettings)
    @@ ("another" :> AnotherTTSSettings)

\* The speeds a caller tries to assign to the speed field of an instance.
AssignedSpeeds == {50, 150}

\* settings.speed = value on a class that is not frozen: the field is set.
setattr_unfrozen(heap, name, value) ==
    [heap |-> [heap EXCEPT ![name].speed = value], err |-> "none"]

\* settings.speed = value: ConfigDict(frozen=True) makes the assignment raise,
\* and the instance keeps its fields.
setattr(heap, name, value) ==
    [heap |-> heap, err |-> "frozen instance"]

\* The texts given to convert.
Texts == {"some text"}

\* self._pipeline = None, and a KPipeline object: which allocation it is, the
\* settings it was built from, and whether its voice is loaded.
NoPipeline == [id |-> 0, built_from |-> NoSettings, voice_loaded |-> FALSE]
KPipeline(id, settings) == [id |-> id, built_from |-> settings, voice_loaded |-> FALSE]

\* No backend constructed, and a backend object.
NoBackend == [exists |-> FALSE, _settings |-> NoSettings, _pipeline |-> NoPipeline]
Backend(settings, pipeline) ==
    [exists |-> TRUE, _settings |-> settings, _pipeline |-> pipeline]

\* The steps of start() at which the allocation of a resource can fail.
AllocationSteps == {"KModel", "KPipeline", "load_voice"}
Failures == {"none"} \cup AllocationSteps

\* The outcome of a method: the backend after it, the exception raised, and
\* whether a pipeline was allocated.
Outcome(b, err, built) == [backend |-> b, err |-> err, built |-> built]

\* KokoroBackend.__init__
KokoroBackend(settings) ==
    IF settings.type # "KokoroSettings"
    THEN Outcome(NoBackend, "TypeError", FALSE)
    ELSE Outcome(Backend(settings, NoPipeline), "none", FALSE)

\* KokoroPlugin.make_backend
make_backend(settings) == KokoroBackend(settings)

\* KokoroBackend.is_started
is_started(b) == b._pipeline # NoPipeline

\* KokoroBackend.get_settings
get_settings(b) == b._settings

\* KokoroBackend.stop
stop(b) == [b EXCEPT !._pipeline = NoPipeline]

\* start that allocates a pipeline whether or not the backend is started.
start_always_allocating(b, fail, id) ==
    LET builds_model ==
            ~b._settings.model_path.isnone \/ ~b._settings.config_path.isnone
        pipeline == KPipeline(id, b._settings)
        assigned == [b EXCEPT !._pipeline = pipeline]
    IN  IF builds_model /\ fail = "KModel" THEN Outcome(b, "Exception", FALSE)
        ELSE IF fail = "KPipeline" THEN Outcome(b, "Exception", FALSE)
        ELSE IF fail = "load_voice" THEN Outcome(assigned, "Exception", TRUE)
        ELSE Outcome([assigned EXCEPT !._pipeline.voice_loaded = TRUE], "none", TRUE)

\* KokoroBackend.start; fail is the step at which the allocation fails, id the
\* identity of the pipeline object if one is built.
start(b, fail, id) ==
    LET builds_model ==
            ~b._settings.model_path.isnone \/ ~b._settings.config_path.isnone
        pipeline == KPipeline(id, b._settings)
        assigned == [b EXCEPT !._pipeline = pipeline]
    IN  IF is_started(b) THEN Outcome(b, "none", FALSE)
        ELSE IF builds_model /\ fail = "KModel" THEN Outcome(b, "Exception", FALSE)
        ELSE IF fail = "KPipeline" THEN Outcome(b, "Exception", FALSE)
        ELSE IF fail = "load_voice" THEN Outcome(assigned, "Exception", TRUE)
        ELSE Outcome([assigned EXCEPT !._pipeline.voice_loaded = TRUE], "none", TRUE)

\* update_settings that swaps the settings and leaves a started backend
\* running as it is.
update_settings_without_restart(b, new_settings, fail, id) ==
    IF new_settings.type # "KokoroSettings" THEN Outcome(b, "TypeError", FALSE)
    ELSE Outcome([b EXCEPT !._settings = new_settings], "none", FALSE)

\* update_settings without the isinstance check.
update_settings_unchecked(b, new_settings, fail, id) ==
    LET started_state == is_started(b)
        stopped == IF started_state THEN stop(b) ELSE b
        swapped == [stopped EXCEPT !._settings = new_settings]
    IN  IF started_state THEN start(swapped, fail, id)
        ELSE Outcome(swapped, "none", FALSE)

\* update_settings that restarts a started backend without taking the new
\* settings.
update_settings_only_when_stopped(b, new_settings, fail, id) ==
    IF new_settings.type # "KokoroSettings" THEN Outcome(b, "TypeError", FALSE)
    ELSE LET started_state == is_started(b)
             stopped == IF started_state THEN stop(b) ELSE b
             swapped == [stopped EXCEPT !._settings = new_settings]
         IN  IF started_state THEN start(stopped, fail, id)
             ELSE Outcome(swapped, "none", FALSE)

\* KokoroBackend.update_settings
update_settings(b, new_settings, fail, id) ==
    IF new_settings.type # "KokoroSettings" THEN Outcome(b, "TypeError", FALSE)
    ELSE LET started_state == is_started(b)
             stopped == IF started_state THEN stop(b) ELSE b
             swapped == [stopped EXCEPT !._settings = new_settings]
         IN  IF started_state THEN start(swapped, fail, id)
             ELSE Outcome(swapped, "none", FALSE)

\* KokoroBackend.convert is a generator function: the call runs none of its
\* body and returns a generator object, here with the text and, for the
\* properties, whether the backend was started at the call.
convert(b, text) == [text |-> text, called_started |-> is_started(b)]
NoGenerator == [text |-> "", called_started |-> FALSE]

\* The first next() on the generator runs the body of convert: the started
\* check, then the pipeline.
generator_next(b, generator) ==
    IF ~is_started(b) THEN [err |-> "RuntimeError", audio |-> FALSE]
    ELSE [err |-> "none", audio |-> TRUE]

\* The last call on the backend: the method, its arguments, the step at which
\* an allocation failed, the generator consumed, and the outcome.
NoBackendCall ==
    [op |-> "none", arg |-> NoSettings, text |-> "", fail |-> "none",
     generator |-> NoGenerator, err |-> "none", audio |-> FALSE]

BackendInit ==
    /\ backend = NoBackend
    /\ b_call = NoBackendCall
    /\ b_prev = NoBackend
    /\ generators = {}
    /\ allocated = 0
    /\ instances = ConstructedInstances
    /\ RegistryIdle
    /\ SettingsIdle
    /\ TTSRegistryIdle
    /\ LocaleIdle

\* What every call on the backend does besides its own effect.
BackendCalled(out, callrec) ==
    /\ backend' = out.backend
    /\ allocated' = IF out.built THEN allocated + 1 ELSE allocated
    /\ b_prev' = backend
    /\ b_call' = callrec
    /\ UNCHANGED <<vars, settingsVars, ttsRegistryVars, localeVars>>

\* A call on the backend, which assigns no field of any settings object.
BackendOnlyCalled(out, callrec) ==
    /\ BackendCalled(out, callrec)
    /\ UNCHANGED instances

\* backend = KokoroBackend(settings), or plugin.make_backend(settings)
MakeBackend ==
    /\ ~backend.exists
    /\ \E name \in DOMAIN instances, op \in {"__init__", "make_backend"} :
           LET settings == instances[name]
               out == IF op = "__init__" THEN KokoroBackend(settings)
                      ELSE make_backend(settings)
           IN  BackendOnlyCalled(out, [NoBackendCall EXCEPT
                                     !.op = op, !.arg = settings, !.err = out.err])
    /\ UNCHANGED generators

\* backend.start()
Start ==
    /\ backend.exists
    /\ allocated < MaxPipelines
    /\ \E fail \in Failures :
           LET out == start(backend, fail, allocated + 1)
           IN  BackendOnlyCalled(out, [NoBackendCall EXCEPT
                                     !.op = "start", !.fail = fail, !.err = out.err])
    /\ UNCHANGED generators

\* backend.stop()
Stop ==
    /\ backend.exists
    /\ BackendOnlyCalled(Outcome(stop(backend), "none", FALSE),
                     [NoBackendCall EXCEPT !.op = "stop"])
    /\ UNCHANGED generators

\* backend.update_settings(new_settings)
UpdateSettings ==
    /\ backend.exists
    /\ allocated < MaxPipelines
    /\ \E name \in DOMAIN instances, fail \in Failures :
           LET new_settings == instances[name]
               out == update_settings(backend, new_settings, fail, allocated + 1)
           IN  BackendOnlyCalled(out, [NoBackendCall EXCEPT
                                     !.op = "update_settings", !.arg = new_settings,
                                     !.fail = fail, !.err = out.err])
    /\ UNCHANGED generators

\* chunks = backend.convert(text)
Convert ==
    /\ backend.exists
    /\ \E text \in Texts :
           /\ generators' = generators \cup {convert(backend, text)}
           /\ BackendOnlyCalled(Outcome(backend, "none", FALSE),
                            [NoBackendCall EXCEPT
                               !.op = "convert", !.text = text,
                               !.generator = convert(backend, text)])

\* next(chunks), the first consumption of a generator
NextChunk ==
    /\ backend.exists
    /\ \E generator \in generators :
           LET out == generator_next(backend, generator)
           IN  /\ generators' = generators \ {generator}
               /\ BackendOnlyCalled(Outcome(backend, "none", FALSE),
                                [NoBackendCall EXCEPT
                                   !.op = "next", !.text = generator.text,
                                   !.generator = generator,
                                   !.err = out.err, !.audio = out.audio])

\* settings.speed = value, by a caller that holds the settings object
SetAttr ==
    /\ backend.exists
    /\ \E name \in DOMAIN instances, value \in AssignedSpeeds :
           LET out == setattr(instances, name, value)
           IN  /\ instances' = out.heap
               /\ BackendCalled(Outcome(backend, "none", FALSE),
                                [NoBackendCall EXCEPT
                                   !.op = "setattr", !.arg = instances[name],
                                   !.err = out.err])
    /\ UNCHANGED generators

BackendNext ==
    \/ MakeBackend
    \/ Start
    \/ Stop
    \/ UpdateSettings
    \/ Convert
    \/ NextChunk
    \/ SetAttr

BackendSpec == BackendInit /\ [][BackendNext]_allVars

(***************************************************************************)
(* Properties of KokoroBackend.                                            *)
(***************************************************************************)
\* is_started right before and right after the last call.
WasStarted == is_started(b_prev)
IsStarted == is_started(backend)

\* C11: a convert(text) call on a backend that is not started fails with a
\* RuntimeError-class error, and audio only comes from a convert call made on a
\* started backend.
C11_ConvertRequiresStarted ==
    /\ (b_call.op = "convert" /\ ~WasStarted) =>
           "RuntimeError" \in ExceptionClasses(b_call.err)
    /\ (b_call.op = "next" /\ b_call.audio) => b_call.generator.called_started

\* C12: is_started right after update_settings(new) equals is_started right
\* before it, whatever new is and however the call ends.
C12_UpdateKeepsStarted ==
    b_call.op = "update_settings" => IsStarted = WasStarted

\* C13: a start() in which an allocation fails raises, and leaves the backend
\* stopped.
C13_FailedStartLeavesStopped ==
    (b_call.op = "start" /\ b_call.err # "none") => ~IsStarted

\* C14: a backend never holds settings that are not KokoroSettings.
\* Constructing one with such settings, directly or through make_backend,
\* raises TypeError and gives no backend; update_settings with such settings
\* raises TypeError and leaves the settings and is_started as they were.
C14_ForeignSettingsRejected ==
    /\ backend.exists => get_settings(backend).type = "KokoroSettings"
    /\ (b_call.op \in {"__init__", "make_backend"} /\ b_call.arg.type # "KokoroSettings") =>
           /\ b_call.err = "TypeError"
           /\ ~backend.exists
    /\ (b_call.op = "update_settings" /\ b_call.arg.type # "KokoroSettings") =>
           /\ b_call.err = "TypeError"
           /\ get_settings(backend) = get_settings(b_prev)
           /\ IsStarted = WasStarted
           /\ backend = b_prev

\* C14 witness: a started backend refused the settings of another plugin in
\* update_settings and kept its own settings and its pipeline.
C14_Witness ==
    /\ b_call.op = "update_settings"
    /\ b_call.arg = AnotherTTSSettings
    /\ b_call.err = "TypeError"
    /\ WasStarted /\ IsStarted
    /\ get_settings(backend) = BritishSettings

\* C15: after an update_settings(new) that returned, get_settings() is new,
\* and so differs from the settings before whenever new does; whether the
\* backend was started or stopped at the call.
C15_UpdateSetsSettings ==
    (b_call.op = "update_settings" /\ b_call.err = "none") =>
        /\ get_settings(backend) = b_call.arg
        /\ b_call.arg # get_settings(b_prev) =>
               get_settings(backend) # get_settings(b_prev)

\* C15 witness: a started backend with the default settings was given other
\* settings, and returns them from get_settings.
C15_Witness ==
    /\ b_call.op = "update_settings"
    /\ b_call.err = "none"
    /\ WasStarted /\ IsStarted
    /\ get_settings(b_prev) = DefaultSettings
    /\ b_call.arg = BritishSettings
    /\ get_settings(backend) = BritishSettings

\* C16: start() on a started backend and stop() on a stopped backend raise
\* nothing and leave is_started, the pipeline object and the settings as they
\* were.
C16_StartStopIdempotent ==
    /\ (b_call.op = "start" /\ WasStarted) =>
           /\ b_call.err = "none"
           /\ IsStarted
           /\ backend._pipeline = b_prev._pipeline
           /\ get_settings(backend) = get_settings(b_prev)
    /\ (b_call.op = "stop" /\ ~WasStarted) =>
           /\ b_call.err = "none"
           /\ ~IsStarted
           /\ backend = b_prev

\* C16 witness: start() on a backend started twice before still holds the
\* second pipeline.
C16_Witness ==
    /\ b_call.op = "start"
    /\ WasStarted /\ IsStarted
    /\ allocated = 2
    /\ backend._pipeline.id = 2
    /\ backend._pipeline = b_prev._pipeline

C26_PipelineBuiltFromCurrentSettings ==
    IsStarted => backend._pipeline.built_from = get_settings(backend)

\* C26 witness: a backend started with the default settings was given other
\* settings, and runs on a second pipeline built from them.
C26_Witness ==
    /\ b_call.op = "update_settings"
    /\ b_call.err = "none"
    /\ WasStarted /\ IsStarted
    /\ b_prev._pipeline.built_from = DefaultSettings
    /\ get_settings(backend) = BritishSettings
    /\ backend._pipeline.built_from = BritishSettings
    /\ backend._pipeline.id # b_prev._pipeline.id

\* C27: after an update_settings(new) that raised, get_settings() returns the
\* settings from before the call.
C27_FailedUpdateKeepsSettings ==
    (b_call.op = "update_settings" /\ b_call.err # "none") =>
        get_settings(backend) = get_settings(b_prev)

\* C28: a convert(text) call made while the backend is stopped raises
\* RuntimeError at the call and returns nothing to consume, so no consumption
\* after a later start() yields audio for it.
C28_StartedCheckAtTheCall ==
    /\ (b_call.op = "convert" /\ ~WasStarted) => b_call.err = "RuntimeError"
    /\ \A generator \in generators : generator.called_started
    /\ (b_call.op = "next" /\ ~b_call.generator.called_started) => ~b_call.audio

(***************************************************************************)
(* Part 4: TTSRegistry, the registry of TTSRegistryRecords.                *)
(***************************************************************************)
RecordKeys == {"key1", "key2"}
RegistryCallerKeys == RecordKeys \cup {"nonexistent"}
\* The factory functions records are made of: those of one backend and those
\* of another.
Factories == {"dummy", "alternate"}
\* The locales given to get_names.
NameLocales == {"en-CA", "fr-CA"}

\* TTSRegistryRecord(key=..., display_name_factory=..., settings_factory=...,
\* backend_factory=...): a frozen dataclass instance.  `object` tells two
\* instances with the same fields apart (Python's `is`).
TTSRegistryRecord(key, factory, object) ==
    [key |-> key, display_name_factory |-> factory, settings_factory |-> factory,
     backend_factory |-> factory, object |-> object]

RegistryRecords ==
    {TTSRegistryRecord(key, factory, object) :
        key \in RecordKeys, factory \in Factories, object \in {"record1", "record2"}}

NoRecord == TTSRegistryRecord("", "", "")

\* record == existing_record, the __eq__ the dataclass generates: the fields
\* are compared, not the identity.
record_eq(a, b) ==
    /\ a.key = b.key
    /\ a.display_name_factory = b.display_name_factory
    /\ a.settings_factory = b.settings_factory
    /\ a.backend_factory = b.backend_factory

\* record.display_name_factory(locale)
display_name(factory, locale) ==
    IF factory = "dummy"
    THEN (IF locale = "fr-CA" THEN "Je suis un nom" ELSE "I am a name")
    ELSE "I am an alternate name"

\* register that stores the record given over an equal stored one.
register_replacing_equal(R, E, record) ==
    IF record.key \in DOMAIN R /\ ~record_eq(record, R[record.key])
    THEN [records |-> R, enabled |-> E, err |-> "ValueError"]
    ELSE [records |-> [k \in DOMAIN R \cup {record.key} |->
                          IF k = record.key THEN record ELSE R[k]],
          enabled |-> E, err |-> "none"]

\* TTSRegistry.register
register(R, E, record) ==
    IF record.key \in DOMAIN R
    THEN LET existing_record == R[record.key]
         IN  IF record_eq(record, existing_record)
             THEN [records |-> R, enabled |-> E, err |-> "none"]
             ELSE [records |-> R, enabled |-> E, err |-> "ValueError"]
    ELSE [records |-> [k \in DOMAIN R \cup {record.key} |->
                          IF k = record.key THEN record ELSE R[k]],
          enabled |-> E, err |-> "none"]

\* TTSRegistry._raise_backend_not_found
raise_backend_not_found == "ValueError"

\* TTSRegistry.get_record
get_record(R, key) ==
    IF key \in DOMAIN R
    THEN [ret |-> R[key], err |-> "none"]
    ELSE [ret |-> NoRecord, err |-> raise_backend_not_found]

\* TTSRegistry.get_names
get_names(R, E, locale, include_disabled) ==
    [key \in {k \in DOMAIN R : k \in E \/ include_disabled} |->
        display_name(R[key].display_name_factory, locale)]

\* TTSRegistry.enable
TTSRegistry_enable(R, E, key) ==
    IF key \notin DOMAIN R
    THEN [records |-> R, enabled |-> E, err |-> raise_backend_not_found]
    ELSE [records |-> R, enabled |-> E \cup {key}, err |-> "none"]

\* TTSRegistry.disable
TTSRegistry_disable(R, E, key) ==
    IF key \notin DOMAIN R
    THEN [records |-> R, enabled |-> E, err |-> raise_backend_not_found]
    ELSE [records |-> R, enabled |-> E \ {key}, err |-> "none"]

\* The last call on the TTSRegistry.
NoRegistryCall ==
    [op |-> "new", record |-> NoRecord, key |-> "", locale |-> "",
     include_disabled |-> FALSE, err |-> "none", retRecord |-> NoRecord,
     retNames |-> <<>>]

\* TTSRegistry.__init__
TTSRegistryInit ==
    /\ records = <<>>
    /\ enabled_backends = {}
    /\ r_call = NoRegistryCall
    /\ r_prev = [records |-> <<>>, enabled |-> {}]
    /\ RegistryIdle
    /\ SettingsIdle
    /\ BackendIdle
    /\ LocaleIdle

\* What every call on the TTSRegistry does besides its own effect.
RegistryCalled(out, callrec) ==
    /\ records' = out.records
    /\ enabled_backends' = out.enabled
    /\ r_call' = callrec
    /\ r_prev' = [records |-> records, enabled |-> enabled_backends]
    /\ UNCHANGED <<vars, settingsVars, backendVars, localeVars>>

Register ==
    \E record \in RegistryRecords :
        LET out == register(records, enabled_backends, record)
        IN  RegistryCalled(out, [NoRegistryCall EXCEPT
                                   !.op = "register", !.record = record,
                                   !.err = out.err])

GetRecord ==
    \E key \in RegistryCallerKeys :
        LET out == get_record(records, key)
        IN  RegistryCalled([records |-> records, enabled |-> enabled_backends],
                           [NoRegistryCall EXCEPT
                              !.op = "get_record", !.key = key,
                              !.retRecord = out.ret, !.err = out.err])

GetNames ==
    \E locale \in NameLocales, include_disabled \in BOOLEAN :
        RegistryCalled([records |-> records, enabled |-> enabled_backends],
                       [NoRegistryCall EXCEPT
                          !.op = "get_names", !.locale = locale,
                          !.include_disabled = include_disabled,
                          !.retNames = get_names(records, enabled_backends, locale,
                                                 include_disabled)])

RegistryEnable ==
    \E key \in RegistryCallerKeys :
        LET out == TTSRegistry_enable(records, enabled_backends, key)
        IN  RegistryCalled(out, [NoRegistryCall EXCEPT
                                   !.op = "enable", !.key = key, !.err = out.err])

RegistryDisable ==
    \E key \in RegistryCallerKeys :
        LET out == TTSRegistry_disable(records, enabled_backends, key)
        IN  RegistryCalled(out, [NoRegistryCall EXCEPT
                                   !.op = "disable", !.key = key, !.err = out.err])

TTSRegistryNext ==
    \/ Register
    \/ GetRecord
    \/ GetNames
    \/ RegistryEnable
    \/ RegistryDisable

TTSRegistrySpec == TTSRegistryInit /\ [][TTSRegistryNext]_allVars

(***************************************************************************)
(* Properties of the TTSRegistry.                                          *)
(***************************************************************************)
\* C23: register of a record whose key is already registered: a record equal
\* to the stored one is accepted without an error and the stored record stays
\* the very object stored before; a record that differs raises ValueError.
\* Either way the records and the enabled set are as before the call.
C23_RegisterAsymmetric ==
    (r_call.op = "register" /\ r_call.record.key \in DOMAIN r_prev.records) =>
        LET stored == r_prev.records[r_call.record.key]
        IN  /\ record_eq(r_call.record, stored) => r_call.err = "none"
            /\ ~record_eq(r_call.record, stored) => r_call.err = "ValueError"
            /\ records[r_call.record.key].object = stored.object
            /\ records = r_prev.records
            /\ enabled_backends = r_prev.enabled

\* C23 witness: a second record object with the fields of the stored one was
\* registered under an enabled key; the call returned and the first object is
\* still the one stored.
C23_Witness ==
    /\ r_call.op = "register"
    /\ r_call.record = TTSRegistryRecord("key1", "dummy", "record2")
    /\ r_call.err = "none"
    /\ records["key1"] = TTSRegistryRecord("key1", "dummy", "record1")
    /\ "key1" \in enabled_backends
    /\ "key2" \in DOMAIN records

(***************************************************************************)
(* Part 5: the locale-accepting methods of KokoroPlugin.                   *)
(***************************************************************************)
\* The languages the package has a translation catalogue for.
Catalogues == {"fr"}

\* What gettext.translation(..., fallback=True) gives when it finds no
\* catalogue: NullTranslations, whose gettext returns the source string.
NullTranslations == "none"

\* The locales the callers give, in underscore and in hyphen form, and a
\* string that is no locale.
LocaleStrings ==
    {"en_US", "en-US", "en_GB", "en-GB", "fr_FR", "fr-FR", "fr", "ja", "es",
     "xx_XX", "xx-XX", "12"}

\* The setting names the callers give.
SettingNames == Fields \cup {"invalid"}

\* gettext.translation(domain, localedir, languages, fallback=True): the
\* catalogue of the first of the languages, each followed by its language
\* alone, that has one.
translation(languages) ==
    LET expanded == [i \in 1..(2 * Len(languages)) |->
                        IF i % 2 = 1 THEN Locale_str(languages[(i + 1) \div 2])
                        ELSE languages[i \div 2].language]
        found == {i \in DOMAIN expanded : \E c \in Catalogues : Chars[c] = expanded[i]}
    IN  IF found = {} THEN NullTranslations
        ELSE Text(expanded[CHOOSE i \in found : \A j \in found : i <= j])

\* load_language that parses every locale in the POSIX form.
load_language_posix_only(locale) ==
    LET loc == Locale_parse(Str(locale), "_")
    IN  IF loc.err # "none" THEN [err |-> loc.err, translations |-> NullTranslations]
        ELSE [err |-> "none", translations |-> translation(<<loc>>)]

\* load_language(locale, domain, locale_path), for the package's own domain
\* and locale directory (load_internal_language).
load_language(locale) ==
    LET loc == IF str_contains(Chars[locale], "-")
               THEN Locale_parse(Str(locale), "-")
               ELSE Locale_parse(Str(locale), "_")
        locales == IF loc.script # <<>> /\ loc.territory # <<>>
                   THEN <<loc, [loc EXCEPT !.territory = <<>>]>>
                   ELSE <<loc>>
    IN  IF loc.err # "none" THEN [err |-> loc.err, translations |-> NullTranslations]
        ELSE [err |-> "none", translations |-> translation(locales)]

\* A source string of the plugin: its name, or the display name or the
\* description of a setting.
Message(kind, setting_name) == [kind |-> kind, setting |-> setting_name]
NoMessage == Message("", "")

\* The outcome of a locale-accepting method: the exception raised, or the
\* string returned, which is the source string in the language of the
\* catalogue used.
LocaleRaised(err) == [err |-> err, msg |-> NoMessage, language |-> NullTranslations]
Translated(message, translations) ==
    [err |-> "none", msg |-> message, language |-> translations]

\* KokoroPlugin.get_display_name
get_display_name(locale) ==
    LET loaded == load_language(locale)
    IN  IF loaded.err # "none" THEN LocaleRaised(loaded.err)
        ELSE Translated(Message("Kokoro", ""), loaded.translations)

\* KokoroPlugin.get_setting_display_name
get_setting_display_name(setting_name, locale) ==
    LET loaded == load_language(locale)
    IN  IF loaded.err # "none" THEN LocaleRaised(loaded.err)
        ELSE IF setting_name \notin Fields THEN LocaleRaised("AttributeError")
        ELSE Translated(Message("display_name", setting_name), loaded.translations)

\* KokoroPlugin.get_setting_description
get_setting_description(setting_name, locale) ==
    LET loaded == load_language(locale)
    IN  IF loaded.err # "none" THEN LocaleRaised(loaded.err)
        ELSE IF setting_name \notin Fields THEN LocaleRaised("AttributeError")
        ELSE Translated(Message("description", setting_name), loaded.translations)

\* What a locale-accepting operation gives for a locale: the outcome of the
\* method, and for make_settings the settings made or the error.
LocaleOutcome(op, locale, setting_name) ==
    CASE op = "get_display_name" ->
             [out |-> get_display_name(locale), made |-> NoResult]
      [] op = "get_setting_display_name" ->
             [out |-> get_setting_display_name(setting_name, locale), made |-> NoResult]
      [] op = "get_setting_description" ->
             [out |-> get_setting_description(setting_name, locale), made |-> NoResult]
      [] op = "make_settings" ->
             [out |-> LocaleRaised("none"),
              made |-> make_settings(Mapping("locale" :> Str(locale)))]

NoLocaleCall ==
    [op |-> "none", locale |-> "", setting_name |-> "",
     out |-> LocaleRaised("none"), made |-> NoResult]

LocaleInit ==
    /\ l_call = NoLocaleCall
    /\ RegistryIdle
    /\ SettingsIdle
    /\ BackendIdle
    /\ TTSRegistryIdle

\* A call of a locale-accepting operation and its outcome.
LocaleCalled(op, locale, setting_name) ==
    /\ l_call' = [op |-> op, locale |-> locale, setting_name |-> setting_name]
                     @@ LocaleOutcome(op, locale, setting_name)
    /\ UNCHANGED <<vars, settingsVars, backendVars, ttsRegistryVars>>

GetDisplayName ==
    \E locale \in LocaleStrings : LocaleCalled("get_display_name", locale, "")

GetSettingDisplayName ==
    \E locale \in LocaleStrings, setting_name \in SettingNames :
        LocaleCalled("get_setting_display_name", locale, setting_name)

GetSettingDescription ==
    \E locale \in LocaleStrings, setting_name \in SettingNames :
        LocaleCalled("get_setting_description", locale, setting_name)

MakeSettingsOfLocale ==
    \E locale \in LocaleStrings : LocaleCalled("make_settings", locale, "")

LocaleNext ==
    \/ GetDisplayName
    \/ GetSettingDisplayName
    \/ GetSettingDescription
    \/ MakeSettingsOfLocale

LocaleSpec == LocaleInit /\ [][LocaleNext]_allVars

(***************************************************************************)
(* Properties of the locale-accepting methods.                             *)
(***************************************************************************)
\* C21: get_display_name(locale) raises for no locale string: it returns the
\* name of the plugin for every one of them.
C21_DisplayNameNeverFails ==
    l_call.op = "get_display_name" =>
        /\ l_call.out.err = "none"
        /\ l_call.out.msg = Message("Kokoro", "")

\* The same locale written with the other separator.
OtherForm(locale) ==
    IF str_contains(Chars[locale], "_") THEN Text(str_replace(Chars[locale], "_", "-"))
    ELSE IF str_contains(Chars[locale], "-")
    THEN Text(str_replace(Chars[locale], "-", "_"))
    ELSE locale

====
